---- MODULE Spec2Model ----
(***************************************************************************)
(* Model of the PVWA recording exporter: authentication (GetAuthToken),    *)
(* paginated listing (GetRecordings / GetRecordingsByMonth), metadata       *)
(* export (SaveToJSON), streaming download (DownloadRecordings) and the     *)
(* month loop of main.                                                      *)
(***************************************************************************)
EXTENDS Integers, Sequences, FiniteSets, TLC

(***************************************************************************)
(* Bounds of the model.                                                    *)
(***************************************************************************)
\* longest month list main is run with
MaxMonths == 2
\* most recordings a listing page holds in the whole-run specification
MaxRecs == 2
\* longest play response body, in bytes
MaxBody == 2
\* most full pages the paging server is asked for before the model stops asking
MaxPages == 3
\* most requests and file operations that fail in one run
MaxFaults == 1

(***************************************************************************)
(* Program constants.                                                      *)
(***************************************************************************)
maxResultsPerPage == 1000
RefYear == 2024
BufferSize == 32768

\* a nil pointer, error or absent value is None, a present one Some(v)
None == <<>>
Some(v) == <<v>>

Min(a, b) == IF a < b THEN a ELSE b
Max(a, b) == IF a > b THEN a ELSE b

(***************************************************************************)
(* fmt.Sprintf("%d", n): the decimal digits of n, most significant first,  *)
(* with a leading "-" for a negative n.                                    *)
(***************************************************************************)
Digit(d) == <<"0", "1", "2", "3", "4", "5", "6", "7", "8", "9">>[d + 1]

RECURSIVE NatDigits(_)
NatDigits(n) == IF n < 10 THEN <<Digit(n)>>
                ELSE Append(NatDigits(n \div 10), Digit(n % 10))

SprintfD(n) == IF n < 0 THEN <<"-">> \o NatDigits(-n) ELSE NatDigits(n)

(***************************************************************************)
(* strings.Trim(s, "\""): s without its leading and trailing quote         *)
(* characters.  A string is a sequence of characters; "q" is the quote.    *)
(***************************************************************************)
Quote == "q"

RECURSIVE TrimLeft(_)
TrimLeft(s) == IF s # <<>> /\ Head(s) = Quote THEN TrimLeft(Tail(s)) ELSE s

RECURSIVE TrimRight(_)
TrimRight(s) == IF s # <<>> /\ s[Len(s)] = Quote
                THEN TrimRight(SubSeq(s, 1, Len(s) - 1)) ELSE s

TrimQuotes(s) == TrimRight(TrimLeft(s))

(***************************************************************************)
(* package time, UTC only.  A time.Time is its Unix second.                *)
(***************************************************************************)
SecondsPerDay == 86400

IsLeap(y) == (y % 4 = 0) /\ ((y % 100 # 0) \/ (y % 400 = 0))

DaysIn(y, m) == IF m = 2 THEN (IF IsLeap(y) THEN 29 ELSE 28)
                ELSE IF m \in {4, 6, 9, 11} THEN 30 ELSE 31

\* days from 1970-01-01 to y-01-01
DaysSinceEpoch(y) ==
    LET leaps(n) == (n \div 4) - (n \div 100) + (n \div 400)
    IN  365 * (y - 1970) + leaps(y - 1) - leaps(1969)

RECURSIVE DaysBefore(_, _)
\* days from y-01-01 to the first day of month m of year y
DaysBefore(y, m) == IF m = 1 THEN 0 ELSE DaysBefore(y, m - 1) + DaysIn(y, m - 1)

\* time.Date(year, month, day, 0, 0, 0, 0, time.UTC).Unix(): month and day are
\* normalised, a month outside 1..12 moves the year and a day outside the
\* month moves the date by that many days
TimeDate(year, month, day) ==
    LET m0 == month - 1
        y  == year + (m0 \div 12)
        m  == (m0 % 12) + 1
    IN  (DaysSinceEpoch(y) + DaysBefore(y, m) + day - 1) * SecondsPerDay

\* t.Date(): the civil year, month and day of t
CivilDate(t) ==
    CHOOSE c \in [y : (RefYear - 1)..(RefYear + 1), m : 1..12, d : 1..31] :
        /\ c.d <= DaysIn(c.y, c.m)
        /\ TimeDate(c.y, c.m, c.d) <= t
        /\ t < TimeDate(c.y, c.m, c.d) + SecondsPerDay

\* t.AddDate(years, months, days)
AddDate(t, years, months, days) ==
    LET c == CivilDate(t)
    IN  TimeDate(c.y + years, c.m + months, c.d + days)
          + (t - TimeDate(c.y, c.m, c.d))

\* from and to of GetRecordingsByMonth
MonthFrom(month) == TimeDate(RefYear, month, 0)
MonthTo(month) == AddDate(MonthFrom(month), 0, 1, 0) - 1


(***************************************************************************)
(* The server's reading of a decimal parameter (strconv on the far side).  *)
(***************************************************************************)
DigitValue(c) == CHOOSE d \in 0..9 : Digit(d) = c

RECURSIVE ParseNat(_)
ParseNat(s) == IF s = <<>> THEN 0
               ELSE 10 * ParseNat(SubSeq(s, 1, Len(s) - 1)) + DigitValue(s[Len(s)])

ParseD(s) == IF s # <<>> /\ Head(s) = "-" THEN 0 - ParseNat(Tail(s)) ELSE ParseNat(s)

(***************************************************************************)
(* State.                                                                  *)
(***************************************************************************)
VARIABLES
    pc,             \* position of main
    months,         \* the month list parseMonths returned
    mi,             \* index in months of the month being processed
    AuthToken,      \* pvwaClient.AuthToken
    logon,          \* how the Logon request was answered
    reqs,           \* the HTTP requests issued so far, in order
    queryParams,    \* the caller's parameter map of GetRecordings
    offset,         \* GetRecordings: offset
    allRecordings,  \* GetRecordings: allRecordings
    pageRecordings, \* GetRecordings: pageRecordings of the last iteration
    pages,          \* the listing responses of the current GetRecordings call
    sessions,       \* what GetRecordingsByMonth returned
    listErr,        \* the error GetRecordingsByMonth returned
    si,             \* SaveToJSON: index of the recording being written
    saveErr,        \* what SaveToJSON returned
    di,             \* DownloadRecordings: index of the recording being downloaded
    dlErr,          \* what DownloadRecordings returned
    dirs,           \* directories on disk
    files,          \* files on disk: path -> content
    openFiles,      \* output files created and not closed
    openBodies,     \* response streams obtained and not closed
    closes,         \* handle -> number of Close calls made on it
    defers,         \* DownloadRecordings: the deferred calls, oldest first
    body,           \* the bytes of the response stream not read yet
    totalBytes,     \* DownloadRecordings: totalBytes
    stepFailed,     \* some SaveToJSON or DownloadRecordings call returned an error
    faults          \* the requests and file operations that failed so far

vars == <<pc, months, mi, AuthToken, logon, reqs, queryParams, offset,
          allRecordings, pageRecordings, pages, sessions, listErr, si, saveErr,
          di, dlErr, dirs, files, openFiles, openBodies, closes, defers, body,
          totalBytes, stepFailed, faults>>

listVars == <<queryParams, offset, allRecordings, pageRecordings, pages,
              sessions, listErr>>
diskVars == <<dirs, files>>
dlVars == <<di, dlErr, openFiles, openBodies, closes, defers, body, totalBytes>>

(***************************************************************************)
(* Inputs.                                                                 *)
(***************************************************************************)
\* parseMonths on "s-e": the months s..e
MonthRange(s, e) == [i \in 1..(e - s + 1) |-> s + i - 1]

\* parseMonths on "m,m": the same month twice
MonthTwice(m) == <<m, m>>

\* the month lists main is run with: every single month, the ranges that
\* start in May, and May twice
MonthLists == {MonthRange(m, m) : m \in 1..12}
                \cup {MonthRange(5, 5 + n - 1) : n \in 2..MaxMonths}
                \cup {MonthTwice(5)}

\* the body of a successful Logon: a quoted token with a quote inside
TokenBody == <<Quote, "t", Quote, "k", Quote>>
\* the body of a Logon answered with a non-success status
ErrorBody == <<"e", "r", "r">>

EmptyRecordings == [Recordings |-> <<>>, Total |-> 0]

\* no parameter map
NoParams == [offset |-> <<>>, sort |-> "", order |-> "", fromtime |-> <<>>, totime |-> <<>>]

\* main before NewPVWAConfig, run with one of the month lists
InitWith(lists) ==
    /\ pc = "start"
    /\ months \in lists
    /\ mi = 0
    /\ AuthToken = <<>>
    /\ logon = "none"
    /\ reqs = <<>>
    /\ queryParams = NoParams
    /\ offset = 0
    /\ allRecordings = EmptyRecordings
    /\ pageRecordings = EmptyRecordings
    /\ pages = <<>>
    /\ sessions = None
    /\ listErr = None
    /\ si = 0
    /\ saveErr = None
    /\ di = 0
    /\ dlErr = None
    /\ dirs = {}
    /\ files = <<>>
    /\ openFiles = {}
    /\ openBodies = {}
    /\ closes = <<>>
    /\ defers = <<>>
    /\ body = <<>>
    /\ totalBytes = 0
    /\ stepFailed = FALSE
    /\ faults = 0

\* the outcomes the environment may still choose: the failures among them
\* only while fewer than MaxFaults operations have failed
Outcomes(good, bad) == IF faults < MaxFaults THEN good \cup bad ELSE good

Init == InitWith(MonthLists)

Request(kind, params, sid) ==
    [kind |-> kind, auth |-> AuthToken, params |-> params, sid |-> sid]

(***************************************************************************)
(* NewPVWAConfig / GetAuthToken, and main's check of the result.           *)
(* The POST returns an error only when the transport fails; a response     *)
(* with any status is a response, and its body is trimmed and stored.      *)
(***************************************************************************)
\* a slip: the body is stored as it came
StoredTokenUntrimmed(respBody) == respBody

\* the token GetAuthToken stores for a response body
StoredToken(respBody) == TrimQuotes(respBody)

GetAuthToken ==
    /\ pc = "start"
    /\ reqs' = Append(reqs, [kind |-> "logon", auth |-> <<>>, params |-> NoParams, sid |-> None])
    /\ \E kind \in Outcomes({"ok"}, {"status", "transport"}) :
         LET respBody == IF kind = "ok" THEN TokenBody ELSE ErrorBody
         IN  /\ logon' = kind
             /\ faults' = IF kind = "ok" THEN faults ELSE faults + 1
             /\ IF kind = "transport"
                THEN /\ AuthToken' = AuthToken
                     /\ pc' = "exit"           \* log.Fatal in main
                ELSE /\ AuthToken' = StoredToken(respBody)
                     /\ pc' = "month"
    /\ UNCHANGED <<months, mi, si, saveErr, stepFailed>>
    /\ UNCHANGED listVars
    /\ UNCHANGED diskVars
    /\ UNCHANGED dlVars

(***************************************************************************)
(* main's loop header and the head of GetRecordingsByMonth and             *)
(* GetRecordings: the query of the next month, offset 0, an empty result.  *)
(***************************************************************************)
MonthQuery(month) ==
    [offset   |-> <<"0">>,
     sort     |-> "name",
     order    |-> "asc",
     fromtime |-> SprintfD(MonthFrom(month)),
     totime   |-> SprintfD(MonthTo(month))]

NextMonth ==
    /\ pc = "month"
    /\ IF mi < Len(months)
       THEN /\ mi' = mi + 1
            /\ queryParams' = MonthQuery(months[mi + 1])
            /\ offset' = 0
            /\ allRecordings' = EmptyRecordings
            /\ pageRecordings' = EmptyRecordings
            /\ pages' = <<>>
            /\ sessions' = None
            /\ listErr' = None
            /\ pc' = "list"
       ELSE /\ pc' = "done"
            /\ UNCHANGED <<mi>>
            /\ UNCHANGED listVars
    /\ UNCHANGED <<months, AuthToken, logon, reqs, si, saveErr, stepFailed, faults>>
    /\ UNCHANGED diskVars
    /\ UNCHANGED dlVars

(***************************************************************************)
(* GetRecordings: one iteration of the paging loop.                        *)
(* The server answers a listing request in one of four ways: the transport *)
(* fails or the body of a success response cannot be decoded (the GET      *)
(* returns an error), a non-success status (no error, the result stays the *)
(* zero value), or a page with a Total holding the n records that follow   *)
(* the requested offset.  A record is identified with its SessionID, a     *)
(* number: record o is the one at position o of what the server holds, and *)
(* the time filter of the request makes the server skip the d records      *)
(* that start before fromtime.                                             *)
(***************************************************************************)
ListResponses(params, sizes, totals, skips) ==
    LET o == ParseD(params.offset)
    IN  {[offset |-> o, kind |-> k, start |-> 0, n |-> 0, total |-> 0] :
              k \in {"transport", "decode", "status"}}
          \cup {[offset |-> o, kind |-> "ok", start |-> o + d, n |-> n, total |-> t] :
                  <<n, t, d>> \in {x \in sizes \X totals \X skips :
                                     /\ x[1] + x[3] \in sizes
                                     /\ x[1] = 0 => x[3] = 0}}

\* the GET returned an error
GetFailed(resp) == resp.kind \in {"transport", "decode"}

\* pageRecordings after the GET
DecodedPage(resp) ==
    IF resp.kind = "ok"
    THEN [Recordings |-> [i \in 1..resp.n |-> resp.start + i - 1], Total |-> resp.total]
    ELSE EmptyRecordings

\* currentParams: a copy of queryParams with offset overwritten
CurrentParams(params, off) == [params EXCEPT !.offset = SprintfD(off)]

\* a slip: currentParams is the caller's map itself, not a copy of it
CallerParamsAliased(params, off) == CurrentParams(params, off)

\* the caller's map after currentParams was built and its offset set: the
\* loop "for k, v := range queryParams" copied it, it is as it was
CallerParams(params, off) == params

\* a slip: the page replaces what was accumulated
AccumulateOverwrites(all, page) ==
    [Recordings |-> page.Recordings, Total |-> page.Total]

\* allRecordings after the page was added
Accumulate(all, page) ==
    [Recordings |-> all.Recordings \o page.Recordings, Total |-> page.Total]

\* a slip: <= for <, a full page ends the loop
LastPageIncludesFull(page) == Len(page.Recordings) <= maxResultsPerPage

\* "if len(pageRecordings.Recordings) < maxResultsPerPage { break }"
LastPage(page) == Len(page.Recordings) < maxResultsPerPage

\* a slip: > for >=
SafetyStopStrict(off, page) == off > page.Total

\* "if offset >= pageRecordings.Total { break }", on the advanced offset
SafetyStop(off, page) == off >= page.Total

\* the error GetRecordings returns when the GET failed at offset off
ListError(off, resp) == Some([offset |-> off, cause |-> resp.kind])

\* a slip: the pages accumulated so far are returned with the error
ListFailureReturnsPartial(all) == Some(all)

\* what GetRecordings returns with that error
ListFailureResult(all) == None

ListPage(sizes, totals, skips) ==
    /\ pc = "list"
    /\ Len(pages) <= MaxPages
    /\ LET currentParams == CurrentParams(queryParams, offset)
       IN  \E resp \in ListResponses(currentParams, sizes, totals, skips) :
             /\ resp.kind \in Outcomes({"ok"}, {"transport", "decode", "status"})
             /\ faults' = IF resp.kind = "ok" THEN faults ELSE faults + 1
             /\ reqs' = Append(reqs, Request("list", currentParams, None))
             /\ queryParams' = CallerParams(queryParams, offset)
             /\ pages' = Append(pages, resp)
             /\ IF GetFailed(resp)
                THEN /\ listErr' = ListError(offset, resp)
                     /\ sessions' = ListFailureResult(allRecordings)
                     /\ pc' = "listed"
                     /\ UNCHANGED <<offset, allRecordings, pageRecordings>>
                ELSE LET page == DecodedPage(resp)
                         all  == Accumulate(allRecordings, page)
                         next == offset + maxResultsPerPage
                     IN  /\ pageRecordings' = page
                         /\ allRecordings' = all
                         /\ listErr' = None
                         /\ IF LastPage(page)
                            THEN /\ offset' = offset
                                 /\ sessions' = Some(all)
                                 /\ pc' = "listed"
                            ELSE /\ offset' = next
                                 /\ IF SafetyStop(next, page)
                                    THEN sessions' = Some(all) /\ pc' = "listed"
                                    ELSE sessions' = sessions /\ pc' = "list"
    /\ UNCHANGED <<months, mi, AuthToken, logon, si, saveErr, stepFailed>>
    /\ UNCHANGED diskVars
    /\ UNCHANGED dlVars

\* the servers of the two specifications
PagingSizes == {0, 400, maxResultsPerPage}
PagingTotals == {0, 50} \cup {k * maxResultsPerPage : k \in 1..MaxPages}
                  \cup {(MaxPages - 1) * maxResultsPerPage + 400}
RunSizes == 0..MaxRecs
RunTotals == {MaxRecs}
PagingSkips == {0}
\* the filter cuts nothing, or all but the last record
RunSkips == {0, MaxRecs - 1}

ListPagePaging == ListPage(PagingSizes, PagingTotals, PagingSkips)
ListPageRun == ListPage(RunSizes, RunTotals, RunSkips)

(***************************************************************************)
(* main, after GetRecordingsByMonth returned: log.Fatal on an error,       *)
(* otherwise SaveToJSON is entered.                                        *)
(***************************************************************************)
AfterList ==
    /\ pc = "listed"
    /\ IF listErr # None
       THEN pc' = "exit" /\ UNCHANGED <<si, saveErr>>
       ELSE pc' = "save" /\ si' = 0 /\ saveErr' = None
    /\ UNCHANGED <<months, mi, AuthToken, logon, reqs, stepFailed, faults>>
    /\ UNCHANGED listVars
    /\ UNCHANGED diskVars
    /\ UNCHANGED dlVars

(***************************************************************************)
(* The listing on its own: main up to the return of GetRecordingsByMonth,  *)
(* against a server that may return full pages.                            *)
(***************************************************************************)
NextPaging == GetAuthToken \/ NextMonth \/ ListPagePaging \/ AfterList

InitPaging == InitWith({MonthRange(5, 5)})

SpecPaging == InitPaging /\ [][NextPaging]_vars

(***************************************************************************)
(* The disk.  A path is <<month, SessionID, extension>>: the file          *)
(* downloaded_recordings/<month>/<SessionID>.<extension>.                  *)
(***************************************************************************)
Path(month, sid, ext) == <<month, sid, ext>>

\* the disk after path was given content
WithFile(fs, path, content) ==
    [q \in (DOMAIN fs) \cup {path} |-> IF q = path THEN content ELSE fs[q]]

\* a slip: the file is opened for appending, what it held is kept
OsCreateKeeps(fs, path) ==
    IF path \in DOMAIN fs THEN fs ELSE WithFile(fs, path, <<>>)

\* the disk after os.Create(path): the file is there and is empty
OsCreate(fs, path) == WithFile(fs, path, <<>>)

\* the disk after os.WriteFile(path, data): the file holds data and no more
WriteFile(fs, path, data) == WithFile(fs, path, data)

\* the recordings SaveToJSON and DownloadRecordings range over
Recs == sessions[1].Recordings

Month == months[mi]

\* json.MarshalIndent of a recording: the document of that SessionID
MarshalIndent(sid) == <<"json", sid>>

(***************************************************************************)
(* SaveToJSON.  main drops its result and goes on to DownloadRecordings.   *)
(***************************************************************************)
\* os.MkdirAll at the head of SaveToJSON
SaveMkdir ==
    /\ pc = "save"
    /\ \E r \in Outcomes({"ok"}, {"mkdir"}) :
         IF r = "ok"
         THEN /\ dirs' = dirs \cup {Month}
              /\ si' = 1
              /\ pc' = "saveloop"
              /\ UNCHANGED <<saveErr, stepFailed, faults>>
         ELSE /\ saveErr' = Some(r)
              /\ stepFailed' = TRUE
              /\ faults' = faults + 1
              /\ pc' = "download"
              /\ UNCHANGED <<dirs, si>>
    /\ UNCHANGED <<months, mi, AuthToken, logon, reqs, files>>
    /\ UNCHANGED listVars
    /\ UNCHANGED dlVars

\* a slip: the failed recording is skipped and the loop goes on
SaveFailureSkips(i) == [pc |-> "saveloop", si |-> i + 1]

\* "return fmt.Errorf(...)" in the iteration of recording i: SaveToJSON is
\* left, main goes on to DownloadRecordings
SaveFailure(i) == [pc |-> "download", si |-> i]

\* one iteration of the loop of SaveToJSON, or its return after the last:
\* marshal the recording and os.WriteFile it.  A failed WriteFile failed on
\* opening the file (the disk is as before) or on writing it (the file is
\* there, truncated).
SaveOne ==
    /\ pc = "saveloop"
    /\ IF si > Len(Recs)
       THEN /\ saveErr' = None
            /\ pc' = "download"
            /\ UNCHANGED <<si, files, stepFailed, faults>>
       ELSE LET sid  == Recs[si]
                path == Path(Month, sid, "json")
            IN  \E r \in Outcomes({"ok"}, {"marshal", "open", "write"}) :
                  IF r = "ok"
                  THEN /\ files' = WriteFile(files, path, MarshalIndent(sid))
                       /\ si' = si + 1
                       /\ UNCHANGED <<pc, saveErr, stepFailed, faults>>
                  ELSE /\ files' = IF r = "write" THEN WriteFile(files, path, <<>>)
                                   ELSE files
                       /\ saveErr' = Some(r)
                       /\ stepFailed' = TRUE
                       /\ faults' = faults + 1
                       /\ pc' = SaveFailure(si).pc
                       /\ si' = SaveFailure(si).si
    /\ UNCHANGED <<months, mi, AuthToken, logon, reqs, dirs>>
    /\ UNCHANGED listVars
    /\ UNCHANGED dlVars

(***************************************************************************)
(* DownloadRecordings.  main drops its result and goes on to the next      *)
(* month.  The deferred Close calls run when the function returns, the     *)
(* last deferred first.                                                    *)
(***************************************************************************)
\* the handle of the output file, and of the response stream, of the
\* recording at index i of the month at index m
Handle(kind, m, i) == <<kind, m, i>>

\* the video the server holds for a recording
VideoOf(sid) == [i \in 1..((sid + MaxBody) % (MaxBody + 1)) |-> (sid + i) % 256]

RECURSIVE RunDefers(_, _)
\* the open handles after the deferred calls ds ran on the open handles
RunDefers(ds, open) ==
    IF ds = <<>> THEN open
    ELSE RunDefers(SubSeq(ds, 1, Len(ds) - 1), open \ {ds[Len(ds)]})

\* the Close counts after the deferred calls ds ran
CountCloses(ds, cl) ==
    [h \in (DOMAIN cl) \cup {ds[k] : k \in 1..Len(ds)} |->
        (IF h \in DOMAIN cl THEN cl[h] ELSE 0)
          + Cardinality({k \in 1..Len(ds) : ds[k] = h})]

\* DownloadRecordings returns err: the deferred calls run, main goes on
DlReturn(err, ds, files1, bodies1) ==
    /\ openFiles' = RunDefers(ds, files1)
    /\ openBodies' = RunDefers(ds, bodies1)
    /\ closes' = CountCloses(ds, closes)
    /\ defers' = <<>>
    /\ dlErr' = err
    /\ stepFailed' = (stepFailed \/ err # None)
    /\ pc' = "month"

\* os.MkdirAll at the head of DownloadRecordings
DlMkdir ==
    /\ pc = "download"
    /\ \E r \in Outcomes({"ok"}, {"mkdir"}) :
         IF r = "ok"
         THEN /\ dirs' = dirs \cup {Month}
              /\ di' = 1
              /\ defers' = <<>>
              /\ pc' = "dlcreate"
              /\ UNCHANGED <<dlErr, openFiles, openBodies, closes, stepFailed, faults>>
         ELSE /\ DlReturn(Some(r), <<>>, openFiles, openBodies)
              /\ faults' = faults + 1
              /\ UNCHANGED <<dirs, di>>
    /\ UNCHANGED <<months, mi, AuthToken, logon, reqs, files, si, saveErr, body, totalBytes>>
    /\ UNCHANGED listVars

\* the head of the loop of DownloadRecordings: os.Create of the output file
\* and the deferred Close of it, or the return after the last recording
DlCreate ==
    /\ pc = "dlcreate"
    /\ IF di > Len(Recs)
       THEN /\ DlReturn(None, defers, openFiles, openBodies)
            /\ UNCHANGED <<files, faults>>
       ELSE LET h == Handle("file", mi, di)
            IN  \E r \in Outcomes({"ok"}, {"create"}) :
                  IF r = "ok"
                  THEN /\ files' = OsCreate(files, Path(Month, Recs[di], "avi"))
                       /\ openFiles' = openFiles \cup {h}
                       /\ defers' = Append(defers, h)
                       /\ pc' = "dlpost"
                       /\ UNCHANGED <<dlErr, openBodies, closes, stepFailed, faults>>
                  ELSE /\ DlReturn(Some(r), defers, openFiles, openBodies)
                       /\ faults' = faults + 1
                       /\ UNCHANGED files
    /\ UNCHANGED <<months, mi, AuthToken, logon, reqs, dirs, si, saveErr, di, body, totalBytes>>
    /\ UNCHANGED listVars

\* the play request.  The POST fails at transport level, or is answered:
\* with a status other than 200 (its stream was obtained and is left to the
\* caller, who returns without closing it), with 200 and no body, or with
\* 200 and the stream of the video, whose Close is deferred.  videos are
\* the videos the server holds, by SessionID.
DlPost(videos) ==
    /\ pc = "dlpost"
    /\ reqs' = Append(reqs, Request("play", NoParams, Some(Recs[di])))
    /\ LET h == Handle("body", mi, di)
       IN  \E r \in Outcomes({"ok"}, {"transport", "status", "nobody"}) :
             IF r = "ok"
             THEN /\ openBodies' = openBodies \cup {h}
                  /\ defers' = Append(defers, h)
                  /\ body' = videos[Recs[di]]
                  /\ totalBytes' = 0
                  /\ pc' = "dlread"
                  /\ UNCHANGED <<dlErr, openFiles, closes, stepFailed, faults>>
             ELSE /\ DlReturn(Some(r), defers, openFiles,
                              IF r = "status" THEN openBodies \cup {h} ELSE openBodies)
                  /\ faults' = faults + 1
                  /\ UNCHANGED <<body, totalBytes>>
    /\ UNCHANGED <<months, mi, AuthToken, logon, dirs, files, si, saveErr, di>>
    /\ UNCHANGED listVars

\* a slip: Read is given a buffer as large as the stream
ReadSizesUncapped(avail) == 0..avail

\* the sizes Read may return with avail bytes left in the stream: any
\* number of them that fits the buffer
ReadSizes(avail) == 0..Min(avail, BufferSize)

\* a slip: the error of Read is looked at first, data that comes with
\* io.EOF is not written
WritesChunkUnlessEOF(n, r) == n > 0 /\ r # "eof"

\* "if n > 0 { out.Write(buffer[:n]) ... }", whatever Read's error is
WritesChunk(n, r) == n > 0

\* the file after out.Write(buffer[:n]), the buffer holding what Read read
ChunkWritten(content, buffer, n) == content \o SubSeq(buffer, 1, n)

\* "totalBytes += n"
Counted(total, n) == total + n

\* a slip: the loop is left after the first Read
CopyDoneAfterFirstRead(r) == TRUE

\* "if err == io.EOF { break }"
CopyDone(r) == r = "eof"

\* one iteration of the copy loop: Read returns n bytes, at most the buffer,
\* and nil, io.EOF (only at the end of the stream) or an error; n > 0 bytes
\* are written and counted before the error of Read is looked at.  The
\* reader returns the sizes in sizes only.
DlRead(sizes) ==
    /\ pc = "dlread"
    /\ LET path == Path(Month, Recs[di], "avi")
       IN  \E n \in ReadSizes(Len(body)) \cap sizes :
           \E r \in Outcomes({"nil"} \cup (IF n = Len(body) THEN {"eof"} ELSE {}),
                             {"read"} \cup (IF n > 0 THEN {"write"} ELSE {})) :
             IF r = "write"
             THEN /\ DlReturn(Some(r), defers, openFiles, openBodies)
                  /\ faults' = faults + 1
                  /\ UNCHANGED <<files, body, totalBytes, di>>
             ELSE /\ files' = IF WritesChunk(n, r)
                              THEN WithFile(files, path, ChunkWritten(files[path], body, n))
                              ELSE files
                  /\ totalBytes' = IF WritesChunk(n, r) THEN Counted(totalBytes, n)
                                   ELSE totalBytes
                  /\ body' = SubSeq(body, n + 1, Len(body))
                  /\ IF CopyDone(r)
                     THEN /\ di' = di + 1
                          /\ pc' = "dlcreate"
                          /\ UNCHANGED <<dlErr, openFiles, openBodies, closes, defers,
                                         stepFailed, faults>>
                     ELSE IF r = "read"
                     THEN /\ DlReturn(Some(r), defers, openFiles, openBodies)
                          /\ faults' = faults + 1
                          /\ UNCHANGED di
                     ELSE /\ UNCHANGED <<pc, di, dlErr, openFiles, openBodies, closes,
                                         defers, stepFailed, faults>>
    /\ UNCHANGED <<months, mi, AuthToken, logon, reqs, dirs, si, saveErr>>
    /\ UNCHANGED listVars

\* the reader of the whole-run specification returns any size
RunReadSizes == 0..BufferSize

DlReadRun == DlRead(RunReadSizes)

\* the videos of the server of the whole-run specification
RunVideos == [sid \in 0..(MaxRecs - 1) |-> VideoOf(sid)]

DlPostRun == DlPost(RunVideos)

(***************************************************************************)
(* The whole run of main, against a server whose pages are short.          *)
(***************************************************************************)
Next == \/ GetAuthToken \/ NextMonth \/ ListPageRun \/ AfterList
        \/ SaveMkdir \/ SaveOne
        \/ DlMkdir \/ DlCreate \/ DlPostRun \/ DlReadRun

Spec == Init /\ [][Next]_vars

(***************************************************************************)
(* The run of main over one month against a server whose videos are        *)
(* larger than the copy buffer, read in a few sizes.                       *)
(***************************************************************************)
\* a video of BufferSize + MaxBody bytes
LongVideoOf(sid) == [i \in 1..(BufferSize + MaxBody) |-> (sid + i) % 256]

LongVideos == [sid \in 0..(MaxRecs - 1) |-> LongVideoOf(sid)]

\* Read returns nothing, a buffer less one byte, a full buffer, or all
\* that is left
LongReadSizes == {0, BufferSize - 1, BufferSize, Len(body)}

DlPostLong == DlPost(LongVideos)
DlReadLong == DlRead(LongReadSizes)

InitLong == InitWith({MonthRange(5, 5)})

NextLong == \/ GetAuthToken \/ NextMonth \/ ListPageRun \/ AfterList
            \/ SaveMkdir \/ SaveOne
            \/ DlMkdir \/ DlCreate \/ DlPostLong \/ DlReadLong

SpecLong == InitLong /\ [][NextLong]_vars

(***************************************************************************)
(* Properties of the listing.                                              *)
(***************************************************************************)
CeilDiv(a, b) == (a + b - 1) \div b

RECURSIVE Delivered(_)
\* the number of records the server delivered in the responses ps
Delivered(ps) == IF ps = <<>> THEN 0 ELSE ps[Len(ps)].n + Delivered(SubSeq(ps, 1, Len(ps) - 1))

LastResponse == pages[Len(pages)]

\* GetRecordings returned without an error
ListedOk == pc = "listed" /\ listErr = None

\* the loop was left through the safety check
LeftBySafetyCheck ==
    /\ Len(pageRecordings.Recordings) = maxResultsPerPage
    /\ offset >= pageRecordings.Total

\* the loop was left through a page shorter than the page size
LeftByShortPage == Len(pageRecordings.Recordings) < maxResultsPerPage

\* C1 as stated: on a successful return the number of accumulated recordings
\* equals the returned Total, or the loop was left through the safety check.
C1_LenIsTotalOrSafety ==
    ListedOk => \/ Len(sessions[1].Recordings) = sessions[1].Total
                \/ LeftBySafetyCheck

\* C1 amended: on a successful return, whatever the server did, the loop was
\* left through a page shorter than 1000 records or through the safety check,
\* the accumulated recordings are the records of all the pages received (every
\* page but the last a full one) and the returned Total is the last page's.
C1_ReturnShape ==
    ListedOk =>
        /\ LeftByShortPage \/ LeftBySafetyCheck
        /\ Len(sessions[1].Recordings) = Delivered(pages)
        /\ \A k \in 1..(Len(pages) - 1) : pages[k].n = maxResultsPerPage
        /\ sessions[1].Total = pageRecordings.Total
        /\ pageRecordings = DecodedPage(LastResponse)

\* C1 witness: a successful return after two pages, through a short page,
\* with a Total that is not the number of recordings returned.
C1_Witness ==
    /\ ListedOk
    /\ Len(pages) = 2
    /\ LeftByShortPage
    /\ ~LeftBySafetyCheck
    /\ Len(sessions[1].Recordings) # sessions[1].Total

\* the server was consistent so far and holds T recordings
Consistent(T) ==
    /\ pages # <<>>
    /\ \A k \in 1..Len(pages) :
         LET r == pages[k]
         IN  /\ r.kind = "ok"
             /\ r.total = T
             /\ r.start = r.offset
             /\ r.n = Max(0, Min(r.offset + maxResultsPerPage, T) - r.offset)

\* the recordings 0 .. T-1 in server order
ServerRecords(T) == [i \in 1..T |-> i - 1]

\* C2 as stated: against a consistent server holding T recordings GetRecordings
\* returns exactly those T, and its last request is the one that returned
\* the first page shorter than 1000 records.
C2_ExactAndShortLast ==
    \A T \in PagingTotals :
        (pc = "listed" /\ Consistent(T)) =>
            /\ listErr = None
            /\ sessions[1].Recordings = ServerRecords(T)
            /\ LastResponse.n < maxResultsPerPage
            /\ \A k \in 1..(Len(pages) - 1) : pages[k].n = maxResultsPerPage

\* C2 amended: against a consistent server holding T recordings GetRecordings
\* returns exactly those T in server order after max(1, ceil(T/1000))
\* requests; its last request returned the first page shorter than 1000
\* records or, when T is a positive multiple of 1000, the last full page.
C2_ExactSet ==
    \A T \in PagingTotals :
        (pc = "listed" /\ Consistent(T)) =>
            /\ listErr = None
            /\ sessions[1].Recordings = ServerRecords(T)
            /\ sessions[1].Total = T
            /\ Len(pages) = Max(1, CeilDiv(T, maxResultsPerPage))
            /\ \A k \in 1..(Len(pages) - 1) : pages[k].n = maxResultsPerPage
            /\ \/ LastResponse.n < maxResultsPerPage
               \/ T > 0 /\ T = maxResultsPerPage * Len(pages)

\* C2 witness: a consistent server holding 2000 recordings was listed in two
\* requests, the last of which returned a full page.
C2_Witness ==
    /\ pc = "listed"
    /\ Consistent(2 * maxResultsPerPage)
    /\ Len(pages) = 2
    /\ LastResponse.n = maxResultsPerPage
    /\ Len(sessions[1].Recordings) = 2 * maxResultsPerPage

\* every page received so far reported the Total T
SameTotal(T) == \A k \in 1..Len(pages) : pages[k].kind = "ok" => pages[k].total = T

\* C3: when every page reports the same Total, at most
\* max(1, ceil(Total/1000)) listing requests are issued, whatever the page
\* sizes, and the loop is over once the advanced offset is >= Total.
C3_RequestsBounded ==
    \A T \in PagingTotals :
        SameTotal(T) =>
            /\ Len(pages) <= Max(1, CeilDiv(T, maxResultsPerPage))
            /\ (pc = "list" /\ pages # <<>>) => offset < T

\* C3 witness: Total 50 with a full page, and the listing is over after the
\* first request.
C3_Witness ==
    /\ ListedOk
    /\ Len(pages) = 1
    /\ pages[1].n = maxResultsPerPage
    /\ pages[1].total = 50
    /\ offset >= 50

\* C4: a listing request answered with a non-success status or an
\* undecodable body makes GetRecordings return an error and no recording set.
C4_BadResponseIsError ==
    (pc = "listed" /\ LastResponse.kind \in {"status", "decode"}) =>
        listErr # None /\ sessions = None

\* C5: when the request of a page fails at transport level, GetRecordings
\* returns an error naming the offset of the failing request and no
\* recording set, and the failing request is the last request of the run.
C5_TransportFailure ==
    (pages # <<>> /\ LastResponse.kind = "transport") =>
        /\ pc \in {"listed", "exit"}
        /\ listErr # None
        /\ listErr[1].offset = maxResultsPerPage * (Len(pages) - 1)
        /\ SprintfD(listErr[1].offset) = reqs[Len(reqs)].params.offset
        /\ reqs[Len(reqs)].kind = "list"
        /\ sessions = None

\* C5 witness: the second page failed at transport level after a full first
\* page, and main has ended the run.
C5_Witness ==
    /\ pc = "exit"
    /\ Len(pages) = 2
    /\ pages[1].kind = "ok"
    /\ LastResponse.kind = "transport"
    /\ listErr # None
    /\ listErr[1].offset = maxResultsPerPage

(***************************************************************************)
(* Properties of the whole run.                                            *)
(***************************************************************************)
\* C6: a Logon that fails at transport level or is answered with a
\* non-success status stores no token, and no listing or play request is
\* issued in that run.
C6_FailedLogonStopsRun ==
    logon \in {"transport", "status"} =>
        /\ AuthToken = <<>>
        /\ \A k \in 1..Len(reqs) : reqs[k].kind \notin {"list", "play"}

\* the query of a month has been built
QueryBuilt == mi >= 1

\* C7: for a month m in 1..11 the totime of the query of m is the fromtime
\* of the query of m+1 minus one second.
C7_MonthsContiguous ==
    (QueryBuilt /\ Month <= 11) =>
        ParseD(queryParams.totime) = ParseD(MonthQuery(Month + 1).fromtime) - 1

\* the epoch seconds of 00:00:00 UTC on the first day of the months January
\* 2024 .. January 2025
MonthStart ==
    << 1704067200, 1706745600, 1709251200, 1711929600, 1714521600, 1717200000,
       1719792000, 1722470400, 1725148800, 1727740800, 1730419200, 1733011200,
       1735689600 >>

\* C8: the query of month m sends as fromtime the epoch second of the first
\* day of m of 2024 at 00:00:00 UTC and as totime the epoch second of the
\* first day of the following month minus one.
C8_MonthBounds ==
    QueryBuilt =>
        /\ queryParams.fromtime = SprintfD(MonthStart[Month])
        /\ queryParams.totime = SprintfD(MonthStart[Month + 1] - 1)

\* C9: once a metadata export or a download has returned an error the run
\* halts: no request is issued and nothing is written to disk after it.
C9_StepErrorHaltsRun ==
    [][stepFailed => (reqs' = reqs /\ files' = files)]_vars

\* C10: at most one output file and one response stream are open at any
\* time, both are closed when the next recording's file is about to be
\* opened and when DownloadRecordings has returned, and no handle is closed
\* more than once.
C10_ReleasedBeforeNext ==
    /\ Cardinality(openFiles) <= 1
    /\ Cardinality(openBodies) <= 1
    /\ pc \in {"dlcreate", "month", "done"} => (openFiles = {} /\ openBodies = {})
    /\ \A h \in DOMAIN closes : closes[h] = 1

(***************************************************************************)
(* Properties of the download and the export.                              *)
(***************************************************************************)
\* DownloadRecordings is in its loop
InDownloadLoop == pc \in {"dlcreate", "dlpost", "dlread"}

AviPath(i) == Path(Month, Recs[i], "avi")
JsonPath(i) == Path(Month, Recs[i], "json")

\* C11: while a 200 response is copied, the file followed by the bytes not
\* read yet is the body; once a stream reached its end, the file
\* <SessionID>.avi holds exactly the bytes of the body, in order.
C11_FileIsBody ==
    /\ pc = "dlread" => files[AviPath(di)] \o body = VideoOf(Recs[di])
    /\ InDownloadLoop =>
         \A i \in 1..(di - 1) : files[AviPath(i)] = VideoOf(Recs[i])

\* C11 witness: the copy of a body of MaxBody bytes has reached its end and
\* the file holds these bytes.
C11_Witness ==
    /\ pc = "dlcreate"
    /\ di = 2
    /\ Len(VideoOf(Recs[1])) = MaxBody
    /\ totalBytes = MaxBody
    /\ files[AviPath(1)] = VideoOf(Recs[1])

\* C12: when a play request is answered with a status other than 200,
\* DownloadRecordings returns an error and the directory holds no file
\* <SessionID>.avi of that recording.
C12_NoFileAfterBadStatus ==
    (pc = "month" /\ dlErr = Some("status")) => AviPath(di) \notin DOMAIN files

\* the server's recordings of a run whose recordings all start in month M:
\* record 0 starts in the first second of M, the last record in the last
\* second of M, the others on the days after the first
StartOf(M, sid) ==
    IF sid = 0 THEN MonthStart[M]
    ELSE IF sid = MaxRecs - 1 THEN MonthStart[M + 1] - 1
    ELSE MonthStart[M] + sid * SecondsPerDay

\* the records of that server that start within [fromtime, totime]
Matching(M, params) ==
    {sid \in 0..(MaxRecs - 1) :
        /\ ParseD(params.fromtime) <= StartOf(M, sid)
        /\ StartOf(M, sid) <= ParseD(params.totime)}

\* the listing of the current month was answered by that server, honestly:
\* the page holds the matching records (its Total is not read, the page
\* being short)
HonestListing(M) ==
    /\ Len(pages) = 1
    /\ pages[1].kind = "ok"
    /\ {pages[1].start + i - 1 : i \in 1..pages[1].n} = Matching(M, queryParams)

\* the files in the directory of month m
DirOf(m) == {p \in DOMAIN files : p[1] = m}

\* the current month was processed to its end, for the first time
MonthDone ==
    /\ pc = "month"
    /\ mi >= 1
    /\ \A j \in 1..(mi - 1) : months[j] # Month

\* C13: with a server that filters honestly and whose recordings all start
\* in one month M of 2024, a run without failures leaves in the directory of
\* M exactly one .avi and one .json per recording, and leaves the directory
\* of every other processed month empty.
C13_OnlyMonthOfRecordings ==
    \A M \in 1..12 :
        (MonthDone /\ faults = 0 /\ HonestListing(M)) =>
            DirOf(Month) = IF Month = M
                           THEN {Path(M, sid, ext) :
                                   sid \in 0..(MaxRecs - 1), ext \in {"avi", "json"}}
                           ELSE {}

\* the SessionIDs of the play requests of the first month of the run, in
\* order: the requests between the first and the second listing request
FirstPassSids ==
    LET k    == CHOOSE k \in 3..Len(reqs) : reqs[k].kind = "list"
        pass == SubSeq(reqs, 3, k - 1)
    IN  [i \in 1..Len(pass) |-> pass[i].sid[1]]

\* the second pass over the month that was processed first, the server
\* listing the recordings it listed and delivered then, nothing having failed
RerunSameData ==
    /\ mi = 2
    /\ months[1] = months[2]
    /\ pc \in {"save", "saveloop", "download", "dlcreate", "dlpost", "dlread"}
    /\ faults = 0
    /\ FirstPassSids = Recs

\* the export and the download of the current month have both returned
\* without an error
PassDone ==
    /\ pc = "month"
    /\ mi >= 1
    /\ sessions # None
    /\ saveErr = None
    /\ dlErr = None

\* every listed recording's files hold what the server holds, and no more
FilesAreServerData ==
    \A i \in 1..Len(Recs) :
        /\ files[JsonPath(i)] = MarshalIndent(Recs[i])
        /\ files[AviPath(i)] = VideoOf(Recs[i])

\* C14: a second export and download of a month against the same server
\* data adds no file and removes none, and after every export and download
\* that returned without error each listed recording's .json and .avi hold
\* what the server holds, whatever the files held before; the .avi is
\* emptied when it is created.
C14_RerunSameFiles ==
    [][/\ PassDone' => FilesAreServerData'
       /\ RerunSameData => DOMAIN files' = DOMAIN files
       /\ (pc = "dlcreate" /\ pc' = "dlpost") => files'[AviPath(di)] = <<>>]_vars

C14_Witness ==
    /\ PassDone
    /\ mi = 2
    /\ months[1] = months[2]
    /\ faults = 0
    /\ Len(Recs) = MaxRecs
    /\ FirstPassSids = Recs
    /\ Len(files[AviPath(1)]) = MaxBody

\* the metadata files on disk, with what they hold
JsonFiles == [p \in {q \in DOMAIN files : q[3] = "json"} |-> files[p]]

\* SaveToJSON returned the error of a failed serialization or write
ExportFailed == saveErr # None /\ saveErr[1] \in {"marshal", "open", "write"}

\* after a failed export of a month exported for the first time, no
\* recording after the failed one has a metadata file
NoLaterMetadata ==
    (/\ ExportFailed
     /\ pc \in {"download", "dlcreate", "dlpost", "dlread", "month"}
     /\ \A j \in 1..(mi - 1) : months[j] # Month) =>
        \A j \in (si + 1)..Len(Recs) : JsonPath(j) \notin DOMAIN files

\* C15: the step in which the serialization or the write of recording i
\* fails ends SaveToJSON and touches no file but that of recording i; from
\* then on no metadata file is written or changed, and when the month is
\* exported for the first time no recording after i has a metadata file.
C15_ExportFailureAborts ==
    [][/\ (~ExportFailed /\ ExportFailed') =>
            /\ pc = "saveloop" /\ pc' # "saveloop"
            /\ \A p \in (DOMAIN files \cup DOMAIN files') \ {JsonPath(si)} :
                 p \in DOMAIN files /\ p \in DOMAIN files' /\ files'[p] = files[p]
       /\ ExportFailed => JsonFiles' = JsonFiles
       /\ NoLaterMetadata']_vars

C15_Witness ==
    /\ ExportFailed
    /\ pc = "month"
    /\ dlErr = None
    /\ si = 1
    /\ Len(Recs) = MaxRecs
    /\ JsonPath(1) \in DOMAIN files
    /\ AviPath(MaxRecs) \in DOMAIN files

\* the token of the bodies the server answers a Logon with, the enclosing
\* quote characters stripped
TokenOf(kind) == IF kind = "ok" THEN <<"t", Quote, "k">> ELSE ErrorBody

\* C16: one Logon request is issued, before every listing and play request;
\* every later request carries as authorization the body of the Logon
\* response without its enclosing quote characters, and the stored token
\* stays that one.
C16_OneLogonTokenEverywhere ==
    /\ pc = "start" => reqs = <<>>
    /\ pc # "start" =>
         /\ Len(reqs) >= 1
         /\ reqs[1].kind = "logon"
         /\ \A k \in 2..Len(reqs) :
              /\ reqs[k].kind \in {"list", "play"}
              /\ reqs[k].auth = TokenOf(logon)
         /\ logon # "transport" => AuthToken = TokenOf(logon)

C16_Witness ==
    /\ logon = "ok"
    /\ pc = "done"
    /\ Len(months) = MaxMonths
    /\ \E k \in 1..Len(reqs) : reqs[k].kind = "play" /\ reqs[k].auth = <<"t", Quote, "k">>
    /\ reqs[Len(reqs)].kind = "list"

\* the request issued last
LastReq == reqs[Len(reqs)]

\* the number of listing requests issued so far
ListCount == Cardinality({k \in 1..Len(reqs) : reqs[k].kind = "list"})

\* C17: the k-th listing request is that of the k-th month of the list and
\* is issued when DownloadRecordings of the month before has returned; a
\* metadata file is written only while the last request is the listing of
\* its month; a play request is issued only after SaveToJSON has returned,
\* the first of a month for the first recording and each later one only
\* when the stream of the recording before it was read to its end and
\* written to its file.
C17_StrictlySequential ==
    [][/\ JsonFiles' # JsonFiles => (reqs' = reqs /\ LastReq.kind = "list")
       /\ (Len(reqs') > Len(reqs) /\ LastReq'.kind = "list") =>
            /\ ListCount = mi - 1
            /\ LastReq'.params.fromtime = SprintfD(MonthFrom(months[ListCount + 1]))
            /\ defers = <<>>
            /\ LastReq.kind = "play" => pc \notin {"dlcreate", "dlpost", "dlread"}
       /\ (Len(reqs') > Len(reqs) /\ LastReq'.kind = "play") =>
            /\ saveErr # None \/ si > Len(Recs)
            /\ LastReq'.sid = Some(Recs[di])
            /\ LastReq.kind = "list" => di = 1
            /\ LastReq.kind = "play" =>
                 /\ di > 1
                 /\ LastReq.sid = Some(Recs[di - 1])
                 /\ body = <<>>
                 /\ files[AviPath(di - 1)] = VideoOf(Recs[di - 1])
            /\ LastReq.kind \in {"list", "play"}]_vars

C17_Witness ==
    /\ pc = "dlread"
    /\ mi = MaxMonths
    /\ di = MaxRecs
    /\ ListCount = MaxMonths
    /\ LastReq.kind = "play"
    /\ reqs[Len(reqs) - 1].kind = "play"
    /\ Len(files[AviPath(1)]) = MaxBody
    /\ Cardinality({k \in 1..Len(reqs) : reqs[k].kind = "play"}) > MaxRecs

\* C18: the k-th listing request of a GetRecordings call, counted from 0,
\* carries offset 1000 * k and the caller's sort, order, fromtime and
\* totime; the caller's map is as GetRecordingsByMonth built it, its offset
\* entry included.
C18_OffsetsAndCallerMap ==
    pc \in {"list", "listed"} =>
        /\ Len(reqs) = Len(pages) + 1
        /\ \A k \in 0..(Len(pages) - 1) :
             reqs[k + 2].params =
                 [MonthQuery(Month) EXCEPT !.offset = SprintfD(1000 * k)]
        /\ queryParams = MonthQuery(Month)

C18_Witness ==
    /\ pc = "listed"
    /\ Len(pages) = MaxPages
    /\ ParseD(reqs[Len(reqs)].params.offset) = (MaxPages - 1) * maxResultsPerPage
    /\ reqs[Len(reqs)].params.sort = "name"
    /\ queryParams.offset = <<"0">>

\* the byte counter is the length of the file being written
CounterIsFileLength ==
    pc = "dlread" => totalBytes = Len(files[AviPath(di)])

\* C19: no step makes a file grow by more than 32768 bytes; the byte
\* counter is 0 when the copy of a recording begins, never decreases during
\* the copy, and is the number of bytes in the output file after every
\* chunk write.
C19_ChunksAndCounter ==
    [][/\ \A p \in DOMAIN files \cap DOMAIN files' :
            Len(files'[p]) <= Len(files[p]) + 32768
       /\ (pc = "dlpost" /\ pc' = "dlread") => totalBytes' = 0
       /\ pc = "dlread" =>
            /\ totalBytes' >= totalBytes
            /\ files' # files => totalBytes' = Len(files'[AviPath(di)])
       /\ CounterIsFileLength']_vars

C19_Witness ==
    /\ pc = "dlread"
    /\ di = MaxRecs
    /\ body = <<>>
    /\ totalBytes = BufferSize + MaxBody
    /\ Len(files[AviPath(di)]) = BufferSize + MaxBody
    /\ Len(files[AviPath(1)]) > BufferSize

\* C20: every .avi file on disk has a .json file of the same SessionID in
\* the same month directory.
C20_VideoHasMetadata ==
    \A p \in DOMAIN files :
        p[3] = "avi" => Path(p[1], p[2], "json") \in DOMAIN files

====
